---- MODULE Spec2Model ----
(***************************************************************************)
(* A model of two parts of autocxx:                                        *)
(*   gen/build/src/lib.rs        Builder::new, Builder::builder, the drop  *)
(*                               of a Builder and of its TempDir           *)
(*   engine/src/conversion/api.rs  Api::typename,                          *)
(*                               Api::typename_for_allowlist, and the      *)
(*                               garbage collection over the `deps` edges  *)
(***************************************************************************)
EXTENDS Integers, Sequences, FiniteSets, TLC

(***************************************************************************)
(* Bounds of the model.                                                    *)
(***************************************************************************)
\* the longest list of top-level items of an .rs file
MaxItems == 2
\* how many Builders the caller holds at once
MaxBuilders == 2
\* the most dependency edges of a candidate graph
MaxEdges == 3

VARIABLES
    \* ---- gen/build: the caller's view
    rs_file,        \* the argument of the running (or last) call of Builder::new
    tempdirOk,      \* whether tempdir() succeeds in that call
    result,         \* what the last call returned
    builders,       \* the Builders the caller holds, by the caller's handle
    \* ---- gen/build: the file system
    dirs,           \* the temporary directories that exist
    files,          \* the files in them: records [dir, name, content]
    \* ---- gen/build: the locals of the running call of Builder::new
    pc,
    tdir,
    build,
    source,
    counter,
    idx,
    gen_cxx_path,
    err,
    log,            \* history: the steps the running (or last) call performed
    \* ---- engine: garbage collection of the Api graph
    gcpc,
    apis,
    allowlist,
    retained,
    added,
    passes,
    output,
    \* ---- engine: one Api and its names
    npc,
    api,
    tn,
    tfa

bvars == <<rs_file, tempdirOk, result, builders, dirs, files, pc, tdir, build,
           source, counter, idx, gen_cxx_path, err, log>>
gvars == <<gcpc, apis, allowlist, retained, added, passes, output>>
nvars == <<npc, api, tn, tfa>>
vars == <<bvars, gvars, nvars>>

(***************************************************************************)
(* gen/build/src/lib.rs                                                    *)
(***************************************************************************)

\* The variants of Error.
Errors == {"FileReadError", "Syntax", "InvalidCxx", "TempDirCreationFailed",
           "FileWriteFail", "NoIncludeCxxMacrosFound", "MacroParseFail"}

\* A top-level item of the parsed file. `fate` says what the engine and the
\* file system do with an include_cxx invocation.
Fates == {"ok", "MacroParseFail", "InvalidCxx", "FileWriteFail"}

\* Where write_to_file fails when it does: in File::create or in write_all.
WriteFailures == {"create", "write_all"}

ItemKinds ==
    {[kind |-> "Fn", path |-> "none", fate |-> "ok"],
     [kind |-> "Macro", path |-> "println", fate |-> "ok"]}
    \cup {[kind |-> "Macro", path |-> "include_cxx", fate |-> f] : f \in Fates}

ItemSeqs == UNION {[1..n -> ItemKinds] : n \in 0..MaxItems}

\* The file at the path given to Builder::new: missing, not Rust, or Rust.
RsFiles ==
    {[readable |-> FALSE, parses |-> FALSE, items |-> <<>>],
     [readable |-> TRUE, parses |-> FALSE, items |-> <<>>]}
    \cup {[readable |-> TRUE, parses |-> TRUE, items |-> s] : s \in ItemSeqs}

NoFile == [readable |-> FALSE, parses |-> FALSE, items |-> <<>>]

Handles == 1..MaxBuilders
DirIds == 1..MaxBuilders
NoDir == 0

\* cc::Build::new()
NewBuild == [cpp |-> FALSE, includes |-> <<>>, files |-> <<>>, flags |-> {}]

\* What Builder::new is called with: the file, and whether tempdir() will
\* succeed. When it will not, short files are enough.
Inputs ==
    {<<f, TRUE>> : f \in RsFiles}
    \cup {<<f, FALSE>> : f \in {g \in RsFiles : Len(g.items) <= 1}}

\* Builder { build: builder, _tdir: tdir }
NewBuilder(b, d) == [live |-> TRUE, build |-> b, tdir |-> d]

\* a handle of the caller that holds no Builder
NoBuilder == [live |-> FALSE, build |-> NewBuild, tdir |-> NoDir]

NoPath == <<NoDir, <<"none", 0, "">>>>

NoResult == [kind |-> "none", err |-> "none", handle |-> 0]
ResultOk(h) == [kind |-> "Ok", err |-> "none", handle |-> h]
ResultErr(e) == [kind |-> "Err", err |-> e, handle |-> 0]

\* (a slip: every macro invocation taken for include_cxx)
IsAnyMacro(item) == item.kind = "Macro"

\* if let Item::Macro(mac) = item { if mac.mac.path.is_ident("include_cxx")
IsIncludeCxx(item) == item.kind = "Macro" /\ item.path = "include_cxx"

\* (a slip: the counter left out of the name)
GenNameNoCounter(n) == <<"gen", 0, ".cxx">>

\* format!("gen{}.cxx", counter)
GenName(n) == <<"gen", n, ".cxx">>

\* include_cpp.include_dir() of the invocation at position i of the file
IncludeDir(i) == <<"include", i>>

\* the .cxx half of include_cpp.generate_h_and_cxx() for that invocation
GeneratedCxx(i) == <<"cxx", i>>

\* tdir.path().join(filename)
PathJoin(d, filename) == <<d, filename>>

\* tempdir(): a directory that did not exist
FreshDir == CHOOSE d \in DirIds \ dirs : \A e \in DirIds \ dirs : d <= e

\* File::create(&path) followed by f.write_all(content), on the file system
\* fs: create truncates what is there and fails in a missing directory.
FileCreate(fs, ds, path) ==
    IF path[1] \in ds
    THEN {f \in fs : ~(f.dir = path[1] /\ f.name = path[2])}
         \cup {[dir |-> path[1], name |-> path[2], content |-> <<"empty", 0>>]}
    ELSE fs

FileWriteAll(fs, path, content) ==
    {f \in fs : ~(f.dir = path[1] /\ f.name = path[2])}
    \cup {[dir |-> path[1], name |-> path[2], content |-> content]}

\* Builder::write_to_file: the file system afterwards, and whether it is Ok.
WriteToFile(fs, ds, d, filename, content, failure) ==
    LET path == PathJoin(d, filename) IN
    IF failure = "create" \/ d \notin ds
    THEN [fs |-> fs, ok |-> FALSE, path |-> NoPath]
    ELSE IF failure = "write_all"
    THEN [fs |-> FileCreate(fs, ds, path), ok |-> FALSE, path |-> NoPath]
    ELSE [fs |-> FileWriteAll(FileCreate(fs, ds, path), path, content),
          ok |-> TRUE, path |-> path]

\* (a slip: the TempDir turned into a plain path, which nothing removes)
DropDirsLeak(ds, d) == ds

\* Drop of a TempDir: the directory and everything in it is removed.
DropDirs(ds, d) == ds \ {d}
DropFiles(fs, d) == {f \in fs : f.dir # d}

Event(e, i, ok) == [ev |-> e, pos |-> i, ok |-> ok]

FreeHandles == {h \in Handles : ~builders[h].live}
FreeHandle == CHOOSE h \in FreeHandles : \A g \in FreeHandles : h <= g

\* The locals of Builder::new when no call is running.
LocalsIdle ==
    /\ tdir = NoDir
    /\ build = NewBuild
    /\ source = <<>>
    /\ counter = 0
    /\ idx = 0
    /\ gen_cxx_path = NoPath
    /\ err = "none"

\* The locals go out of scope.
ResetLocals ==
    /\ tdir' = NoDir
    /\ build' = NewBuild
    /\ source' = <<>>
    /\ counter' = 0
    /\ idx' = 0
    /\ gen_cxx_path' = NoPath
    /\ err' = "none"

InitBuild ==
    /\ rs_file = NoFile
    /\ tempdirOk = TRUE
    /\ result = NoResult
    /\ builders = [h \in Handles |-> NoBuilder]
    /\ dirs = {}
    /\ files = {}
    /\ pc = "idle"
    /\ log = <<>>
    /\ LocalsIdle

\* `?` on an Err: the call stops with that error; the locals are still alive.
Fail(e) ==
    /\ err' = e
    /\ pc' = "unwind"

\* The caller calls Builder::new(rs_file).
Call(f, ok) ==
    /\ pc = "idle"
    /\ FreeHandles # {}
    /\ rs_file' = f
    /\ tempdirOk' = ok
    /\ pc' = "tempdir"
    /\ UNCHANGED <<result, log, builders, dirs, files, tdir, build, source, counter, idx,
                   gen_cxx_path, err>>
    /\ UNCHANGED <<gvars, nvars>>

\* (a slip: a failure of tempdir() noticed only after the file was read)
TempDirUnchecked ==
    /\ pc = "tempdir"
    /\ log' = Append(log, Event("tempdir", 0, tempdirOk))
    /\ IF tempdirOk
       THEN /\ tdir' = FreshDir
            /\ dirs' = dirs \cup {FreshDir}
       ELSE UNCHANGED <<tdir, dirs>>
    /\ build' = [NewBuild EXCEPT !.cpp = TRUE]
    /\ pc' = "read"
    /\ UNCHANGED <<rs_file, tempdirOk, result, builders, files, source, counter,
                   idx, gen_cxx_path, err>>
    /\ UNCHANGED <<gvars, nvars>>

\* let tdir = tempdir().map_err(Error::TempDirCreationFailed)?;
\* let mut builder = cc::Build::new(); builder.cpp(true);
TempDir ==
    /\ pc = "tempdir"
    /\ log' = Append(log, Event("tempdir", 0, tempdirOk))
    /\ IF tempdirOk
       THEN /\ tdir' = FreshDir
            /\ dirs' = dirs \cup {FreshDir}
            /\ build' = [NewBuild EXCEPT !.cpp = TRUE]
            /\ pc' = "read"
            /\ UNCHANGED err
       ELSE /\ Fail("TempDirCreationFailed")
            /\ UNCHANGED <<tdir, dirs, build>>
    /\ UNCHANGED <<rs_file, tempdirOk, result, builders, files, source, counter,
                   idx, gen_cxx_path>>
    /\ UNCHANGED <<gvars, nvars>>

\* let source = fs::read_to_string(rs_file).map_err(Error::FileReadError)?;
ReadFile ==
    /\ pc = "read"
    /\ log' = Append(log, Event("read", 0, rs_file.readable))
    /\ IF rs_file.readable
       THEN pc' = "parse" /\ UNCHANGED err
       ELSE Fail("FileReadError")
    /\ UNCHANGED <<rs_file, tempdirOk, result, builders, dirs, files, tdir, build,
                   source, counter, idx, gen_cxx_path>>
    /\ UNCHANGED <<gvars, nvars>>

\* let source = syn::parse_file(&source).map_err(Error::Syntax)?;
\* let mut counter = 0;
ParseFile ==
    /\ pc = "parse"
    /\ log' = Append(log, Event("parse", 0, rs_file.parses))
    /\ IF rs_file.parses
       THEN /\ source' = rs_file.items
            /\ counter' = 0
            /\ idx' = 1
            /\ pc' = "item"
            /\ UNCHANGED err
       ELSE /\ Fail("Syntax")
            /\ UNCHANGED <<source, counter, idx>>
    /\ UNCHANGED <<rs_file, tempdirOk, result, builders, dirs, files, tdir, build,
                   gen_cxx_path>>
    /\ UNCHANGED <<gvars, nvars>>

\* for item in source.items { if let Item::Macro(mac) = item {
\*     if mac.mac.path.is_ident("include_cxx") {
NextItem ==
    /\ pc = "item"
    /\ IF idx > Len(source)
       THEN pc' = "end" /\ UNCHANGED idx
       ELSE IF IsIncludeCxx(source[idx])
       THEN pc' = "macparse" /\ UNCHANGED idx
       ELSE pc' = "item" /\ idx' = idx + 1
    /\ UNCHANGED <<rs_file, tempdirOk, result, builders, dirs, files, tdir, build,
                   source, counter, gen_cxx_path, err, log>>
    /\ UNCHANGED <<gvars, nvars>>

\* let include_cpp = autocxx_engine::IncludeCpp::new_from_syn(mac.mac)
\*     .map_err(Error::MacroParseFail)?;
MacroParse ==
    /\ pc = "macparse"
    /\ log' = Append(log, Event("macparse", idx, source[idx].fate # "MacroParseFail"))
    /\ IF source[idx].fate = "MacroParseFail"
       THEN Fail("MacroParseFail")
       ELSE pc' = "include" /\ UNCHANGED err
    /\ UNCHANGED <<rs_file, tempdirOk, result, builders, dirs, files, tdir, build,
                   source, counter, idx, gen_cxx_path>>
    /\ UNCHANGED <<gvars, nvars>>

\* (a slip: the include directory never registered)
IncludeForgotten ==
    /\ pc = "include"
    /\ log' = Append(log, Event("include", idx, TRUE))
    /\ pc' = "gen"
    /\ UNCHANGED <<rs_file, tempdirOk, result, builders, dirs, files, tdir, build,
                   source, counter, idx, gen_cxx_path, err>>
    /\ UNCHANGED <<gvars, nvars>>

\* builder.include(include_cpp.include_dir());
Include ==
    /\ pc = "include"
    /\ build' = [build EXCEPT !.includes = Append(@, IncludeDir(idx))]
    /\ log' = Append(log, Event("include", idx, TRUE))
    /\ pc' = "gen"
    /\ UNCHANGED <<rs_file, tempdirOk, result, builders, dirs, files, tdir,
                   source, counter, idx, gen_cxx_path, err>>
    /\ UNCHANGED <<gvars, nvars>>

\* (a slip: an invocation that cannot be converted is skipped)
GenerateSkipsInvalid ==
    /\ pc = "gen"
    /\ log' = Append(log, Event("gen", idx, source[idx].fate # "InvalidCxx"))
    /\ IF source[idx].fate = "InvalidCxx"
       THEN pc' = "item" /\ idx' = idx + 1
       ELSE pc' = "write" /\ UNCHANGED idx
    /\ UNCHANGED <<rs_file, tempdirOk, result, builders, dirs, files, tdir, build,
                   source, counter, gen_cxx_path, err>>
    /\ UNCHANGED <<gvars, nvars>>

\* let (_, cxx) = include_cpp.generate_h_and_cxx().map_err(Error::InvalidCxx)?;
Generate ==
    /\ pc = "gen"
    /\ log' = Append(log, Event("gen", idx, source[idx].fate # "InvalidCxx"))
    /\ IF source[idx].fate = "InvalidCxx"
       THEN Fail("InvalidCxx")
       ELSE pc' = "write" /\ UNCHANGED err
    /\ UNCHANGED <<rs_file, tempdirOk, result, builders, dirs, files, tdir, build,
                   source, counter, idx, gen_cxx_path>>
    /\ UNCHANGED <<gvars, nvars>>

\* let fname = format!("gen{}.cxx", counter);
\* counter += 1;
\* let gen_cxx_path = Self::write_to_file(&tdir, &fname, &cxx)
\*     .map_err(Error::FileWriteFail)?;
Write ==
    /\ pc = "write"
    /\ \E failure \in (IF source[idx].fate = "FileWriteFail"
                        THEN WriteFailures ELSE {"none"}) :
       LET fname == GenName(counter)
           w == WriteToFile(files, dirs, tdir, fname, GeneratedCxx(idx), failure)
       IN /\ counter' = counter + 1
          /\ files' = w.fs
          /\ log' = Append(log, Event("write", idx, w.ok))
          /\ IF w.ok
             THEN /\ gen_cxx_path' = w.path
                  /\ pc' = "file"
                  /\ UNCHANGED err
             ELSE /\ Fail("FileWriteFail")
                  /\ UNCHANGED gen_cxx_path
    /\ UNCHANGED <<rs_file, tempdirOk, result, builders, dirs, tdir, build,
                   source, idx>>
    /\ UNCHANGED <<gvars, nvars>>

\* builder.file(gen_cxx_path);   and the end of the loop body
AddFile ==
    /\ pc = "file"
    /\ build' = [build EXCEPT !.files = Append(@, gen_cxx_path)]
    /\ log' = Append(log, Event("file", idx, TRUE))
    /\ idx' = idx + 1
    /\ gen_cxx_path' = NoPath
    /\ pc' = "item"
    /\ UNCHANGED <<rs_file, tempdirOk, result, builders, dirs, files, tdir,
                   source, counter, err>>
    /\ UNCHANGED <<gvars, nvars>>

\* (a slip: the TempDir not moved into the Builder, so dropped on return)
FinishDropsDir ==
    /\ pc = "end"
    /\ IF counter = 0
       THEN /\ Fail("NoIncludeCxxMacrosFound")
            /\ UNCHANGED <<result, builders, tdir, build, source, counter, idx,
                           gen_cxx_path, dirs, files>>
       ELSE /\ builders' = [builders EXCEPT ![FreeHandle] = NewBuilder(build, tdir)]
            /\ result' = ResultOk(FreeHandle)
            /\ dirs' = DropDirs(dirs, tdir)
            /\ files' = DropFiles(files, tdir)
            /\ pc' = "returned"
            /\ ResetLocals
    /\ UNCHANGED <<rs_file, tempdirOk, log>>
    /\ UNCHANGED <<gvars, nvars>>

\* if counter == 0 { Err(Error::NoIncludeCxxMacrosFound) }
\* else { Ok(Builder { build: builder, _tdir: tdir }) }
Finish ==
    /\ pc = "end"
    /\ IF counter = 0
       THEN /\ Fail("NoIncludeCxxMacrosFound")
            /\ UNCHANGED <<result, builders, tdir, build, source, counter, idx,
                           gen_cxx_path>>
       ELSE /\ builders' = [builders EXCEPT ![FreeHandle] = NewBuilder(build, tdir)]
            /\ result' = ResultOk(FreeHandle)
            /\ pc' = "returned"
            /\ ResetLocals
    /\ UNCHANGED <<rs_file, tempdirOk, dirs, files, log>>
    /\ UNCHANGED <<gvars, nvars>>

\* The return of an Err: the locals are dropped, the TempDir among them
\* (there is none when tempdir() itself failed).
Unwind ==
    /\ pc = "unwind"
    /\ dirs' = DropDirs(dirs, tdir)
    /\ files' = DropFiles(files, tdir)
    /\ result' = ResultErr(err)
    /\ pc' = "returned"
    /\ ResetLocals
    /\ UNCHANGED <<rs_file, tempdirOk, builders, log>>
    /\ UNCHANGED <<gvars, nvars>>

\* pub fn new(..) -> Result<Self, Error>: the caller takes the returned value
\* (the Builder, if any, is already in `builders`) and carries on.
CallerTakes ==
    /\ pc = "returned"
    /\ rs_file' = NoFile
    /\ tempdirOk' = TRUE
    /\ result' = NoResult
    /\ log' = <<>>
    /\ pc' = "idle"
    /\ UNCHANGED <<builders, dirs, files, tdir, build, source, counter, idx,
                   gen_cxx_path, err>>
    /\ UNCHANGED <<gvars, nvars>>

\* pub fn builder(&mut self) -> &mut cc::Build, and the caller's use of the
\* reference to customize the build.
BuilderFlag(h, flag) ==
    /\ pc = "idle"
    /\ builders[h].live
    /\ flag \notin builders[h].build.flags
    /\ builders' = [builders EXCEPT ![h].build.flags = @ \cup {flag}]
    /\ UNCHANGED <<rs_file, tempdirOk, result, dirs, files, pc, tdir, build,
                   source, counter, idx, gen_cxx_path, err, log>>
    /\ UNCHANGED <<gvars, nvars>>

\* The Builder goes out of scope: its cc::Build and its TempDir are dropped.
DropBuilder(h) ==
    /\ pc = "idle"
    /\ builders[h].live
    /\ dirs' = DropDirs(dirs, builders[h].tdir)
    /\ files' = DropFiles(files, builders[h].tdir)
    /\ builders' = [builders EXCEPT ![h] = NoBuilder]
    /\ UNCHANGED <<rs_file, tempdirOk, result, pc, tdir, build, source, counter,
                   idx, gen_cxx_path, err, log>>
    /\ UNCHANGED <<gvars, nvars>>

Flags == {"-std=c++14"}

NextBuild ==
    \/ \E in \in Inputs : Call(in[1], in[2])
    \/ TempDir
    \/ ReadFile
    \/ ParseFile
    \/ NextItem
    \/ MacroParse
    \/ Include
    \/ Generate
    \/ Write
    \/ AddFile
    \/ Finish
    \/ Unwind
    \/ CallerTakes
    \/ \E h \in Handles, flag \in Flags : BuilderFlag(h, flag)
    \/ \E h \in Handles : DropBuilder(h)

(***************************************************************************)
(* What the claims about the build driver speak of, stated without the     *)
(* driver's own operators.                                                 *)
(***************************************************************************)

\* the positions of the include_cxx invocations among the items
Matching(items) ==
    {i \in 1..Len(items) : items[i].kind = "Macro" /\ items[i].path = "include_cxx"}

\* the position of the k-th of them, in source order
NthMatching(items, k) ==
    CHOOSE i \in Matching(items) : Cardinality({j \in Matching(items) : j < i}) = k - 1

\* the invocations that fail, at whatever step
Failing(items) == {i \in Matching(items) : items[i].fate # "ok"}

FirstFailing(items) ==
    CHOOSE i \in Failing(items) : \A j \in Failing(items) : i <= j

\* what Builder::new is to return for the input of the running call
Expected ==
    IF ~tempdirOk THEN ResultErr("TempDirCreationFailed")
    ELSE IF ~rs_file.readable THEN ResultErr("FileReadError")
    ELSE IF ~rs_file.parses THEN ResultErr("Syntax")
    ELSE IF Failing(rs_file.items) # {}
    THEN ResultErr(rs_file.items[FirstFailing(rs_file.items)].fate)
    ELSE IF Matching(rs_file.items) = {} THEN ResultErr("NoIncludeCxxMacrosFound")
    ELSE [kind |-> "Ok", err |-> "none"]

FilesIn(d) == {f \in files : f.dir = d}

Live == {h \in Handles : builders[h].live}

\* the running call holds a TempDir
CallHoldsDir == pc \notin {"idle", "returned"} /\ tdir # NoDir

\* every event e of the log is preceded by a successful event b of the same position
Precedes(b, e) ==
    \A j \in 1..Len(log) :
        log[j].ev = e =>
            \E k \in 1..(j - 1) : log[k].ev = b /\ log[k].pos = log[j].pos /\ log[k].ok

\* C2: a successful Builder::new on a file with N >= 1 include_cxx invocations
\* has written exactly gen0.cxx .. gen(N-1).cxx, gen<i>.cxx holding the output
\* of the i-th invocation in source order, and registered exactly these paths,
\* in that order, as compilation inputs.
C2_GeneratedFiles ==
    (pc = "returned" /\ result.kind = "Ok") =>
        LET b == builders[result.handle]
            items == rs_file.items
            N == Cardinality(Matching(items))
        IN /\ N >= 1
           /\ b.live
           /\ b.tdir \in dirs
           /\ FilesIn(b.tdir) =
                  {[dir |-> b.tdir, name |-> <<"gen", k - 1, ".cxx">>,
                    content |-> <<"cxx", NthMatching(items, k)>>] : k \in 1..N}
           /\ b.build.files = [k \in 1..N |-> <<b.tdir, <<"gen", k - 1, ".cxx">>>>]

C2_Witness ==
    /\ pc = "returned"
    /\ result.kind = "Ok"
    /\ Cardinality(Matching(rs_file.items)) = 2
    /\ Cardinality(FilesIn(builders[result.handle].tdir)) = 2

\* C3: on a readable, valid file Builder::new returns NoIncludeCxxMacrosFound
\* exactly when the file has no include_cxx invocation, whatever else it
\* holds; it then returns no Builder, and no Builder is without a file.
C3_NoMacros ==
    /\ (pc = "returned" /\ tempdirOk /\ rs_file.readable /\ rs_file.parses) =>
           (Matching(rs_file.items) = {}
                <=> result = ResultErr("NoIncludeCxxMacrosFound"))
    /\ (pc = "returned" /\ result.err = "NoIncludeCxxMacrosFound") =>
           /\ result.kind = "Err"
           /\ result.handle = 0
           /\ tempdirOk /\ rs_file.readable /\ rs_file.parses
           /\ \A j \in 1..Len(log) : log[j].pos = 0
    /\ \A h \in Live : Len(builders[h].build.files) >= 1

C3_Witness ==
    /\ pc = "returned"
    /\ result.err = "NoIncludeCxxMacrosFound"
    /\ Len(rs_file.items) = 2
    /\ \E i \in 1..2 : rs_file.items[i].kind = "Macro"

\* C4: every temporary directory that exists belongs to a live Builder or to
\* the running call, and every file lies in such a directory: once
\* Builder::new has returned an error, or a Builder is dropped, its directory
\* and the files in it are gone.
C4_NoLeak ==
    /\ dirs = {builders[h].tdir : h \in Live}
              \cup (IF CallHoldsDir THEN {tdir} ELSE {})
    /\ Cardinality(dirs) = Cardinality(Live) + (IF CallHoldsDir THEN 1 ELSE 0)
    /\ \A f \in files : f.dir \in dirs
    /\ (pc = "returned" /\ result.kind = "Err") =>
           Cardinality(dirs) = Cardinality(Live)

C4_Witness ==
    /\ pc = "returned"
    /\ result.err = "FileWriteFail"
    /\ \E j \in 1..Len(log) : log[j].ev = "file"
    /\ dirs = {}
    /\ files = {}

\* C5, the state part: the directory of a live Builder exists, every
\* registered compilation input is a generated file in it, and no two owners
\* share a directory.
C5_FilesPresent ==
    /\ \A h \in Live :
           /\ builders[h].tdir \in dirs
           /\ \A k \in 1..Len(builders[h].build.files) :
                  \E f \in FilesIn(builders[h].tdir) :
                      /\ <<f.dir, f.name>> = builders[h].build.files[k]
                      /\ f.content[1] = "cxx"
    /\ \A h, g \in Live : h # g => builders[h].tdir # builders[g].tdir
    /\ CallHoldsDir => \A h \in Live : builders[h].tdir # tdir

\* C5, the step part: no step changes the files of a Builder that stays alive.
C5_FilesKept ==
    \A h \in Handles :
        (builders[h].live /\ builders'[h].live) =>
            /\ builders'[h].tdir = builders[h].tdir
            /\ builders'[h].build.files = builders[h].build.files
            /\ {f \in files' : f.dir = builders[h].tdir} = FilesIn(builders[h].tdir)

\* C5: as long as a Builder exists its temporary directory and the generated
\* files registered as compilation inputs exist, unchanged, whatever is done
\* through builder(); the directory has one owner.
C5_BuilderKeepsFiles == []C5_FilesPresent /\ [][C5_FilesKept]_vars

C5_Witness ==
    /\ Cardinality(Live) = 2
    /\ \E h \in Live :
           /\ builders[h].build.flags # {}
           /\ Len(builders[h].build.files) = 2
           /\ Cardinality(FilesIn(builders[h].tdir)) = 2

\* C8: Builder::new returns the error of the first step that fails, in the
\* order tempdir, read, parse, then per invocation macro parse, conversion,
\* write; a failed step is the last step of the call, and nothing of a later
\* invocation is parsed, converted, written or registered.
C8_FailFast ==
    /\ pc = "returned" =>
           /\ result.kind = Expected.kind
           /\ result.err = Expected.err
    /\ \A j \in 1..(Len(log) - 1) : log[j].ok
    /\ (Len(log) > 0 /\ ~log[Len(log)].ok) => pc \in {"unwind", "returned"}
    /\ (rs_file.parses /\ Failing(rs_file.items) # {}) =>
           /\ \A j \in 1..Len(log) : log[j].pos <= FirstFailing(rs_file.items)
           /\ CallHoldsDir =>
                  \A f \in FilesIn(tdir) :
                      f.name[2] < Cardinality({i \in Matching(rs_file.items) :
                                                  i <= FirstFailing(rs_file.items)})

C8_Witness ==
    /\ pc = "returned"
    /\ Len(rs_file.items) = 2
    /\ rs_file.items[1].fate = "InvalidCxx"
    /\ rs_file.items[2].fate = "MacroParseFail"
    /\ result.err = "InvalidCxx"

\* the steps of one invocation that come in the order the code has them
C9_Order ==
    /\ Precedes("macparse", "include")
    /\ Precedes("include", "gen")
    /\ Precedes("gen", "write")
    /\ Precedes("write", "file")

\* between invocations as many include directories as files are registered
C9_Boundaries ==
    pc \in {"item", "end"} => Len(build.includes) = Len(build.files)

\* C9 as stated: the include directory is registered only after the write, so
\* an invocation whose conversion or write fails has registered neither.
C9_AsStated ==
    /\ Precedes("macparse", "gen")
    /\ Precedes("gen", "write")
    /\ Precedes("write", "file")
    /\ Precedes("write", "include")
    /\ C9_Boundaries
    /\ (pc = "unwind" /\ err \in {"InvalidCxx", "FileWriteFail"}) =>
           Len(build.includes) = Len(build.files)

\* C9 amended: the order is macro parse, register the include directory,
\* conversion, write, register the file; at invocation boundaries the two
\* counts agree; an invocation whose macro parse fails has registered neither,
\* one whose conversion or write fails has registered its include directory
\* and not its file.
C9_IncludeFirst ==
    /\ C9_Order
    /\ C9_Boundaries
    /\ (pc = "unwind" /\ err = "MacroParseFail") =>
           Len(build.includes) = Len(build.files)
    /\ (pc = "unwind" /\ err \in {"InvalidCxx", "FileWriteFail"}) =>
           /\ Len(build.includes) = Len(build.files) + 1
           /\ build.includes[Len(build.includes)] = <<"include", log[Len(log)].pos>>
           /\ \A k \in 1..Len(build.files) :
                  build.files[k][2][2] < Len(build.files)

C9_Witness ==
    /\ pc = "unwind"
    /\ err = "FileWriteFail"
    /\ Len(build.files) = 1
    /\ Len(build.includes) = 2

\* C10: when tempdir() fails the call returns TempDirCreationFailed without
\* reading the file, whatever the file is; every other error, and every
\* file, arises while the temporary directory exists.
C10_TempDirFirst ==
    /\ (pc \in {"unwind", "returned"} /\ ~tempdirOk) =>
           /\ \A j \in 1..Len(log) : log[j].ev = "tempdir"
           /\ pc = "unwind" => err = "TempDirCreationFailed"
           /\ pc = "returned" => result = ResultErr("TempDirCreationFailed")
    /\ (pc = "returned" /\ result.err = "TempDirCreationFailed") => ~tempdirOk
    /\ (pc = "unwind" /\ err # "TempDirCreationFailed") => tdir \in dirs
    /\ Len(log) >= 2 => (log[1].ev = "tempdir" /\ log[1].ok)
    /\ (\E j \in 1..Len(log) : log[j].ev = "write") /\ pc # "returned" => tdir \in dirs
    /\ \A f \in files : f.dir \in dirs

C10_Witness ==
    /\ pc = "returned"
    /\ ~tempdirOk
    /\ ~rs_file.readable
    /\ result.err = "TempDirCreationFailed"

(***************************************************************************)
(* engine/src/conversion/api.rs                                            *)
(***************************************************************************)

\* syn::Ident, and Ident::to_string()
Ident(s) == [sym |-> s]
IdentToString(i) == i.sym

\* enum Use { Unused, Used, UsedWithAlias(Ident) }
Unused == [tag |-> "Unused", alias |-> Ident("")]
Used == [tag |-> "Used", alias |-> Ident("")]
UsedWithAlias(i) == [tag |-> "UsedWithAlias", alias |-> i]

\* Option<Ident>
None == [some |-> FALSE, val |-> Ident("")]
Some(i) == [some |-> TRUE, val |-> i]

\* Namespace: the path segments of the enclosing scopes
RootNs == <<>>
InnerNs == <<"ns">>

\* TypeName::new(&ns, &name)
TypeNameNew(ns, name) == [ns |-> ns, name |-> name]

\* struct Api, with the fields that name it and link it
MakeApi(ns, id, use_stmt, deps, id_for_allowlist) ==
    [ns |-> ns, id |-> id, use_stmt |-> use_stmt, deps |-> deps,
     id_for_allowlist |-> id_for_allowlist]

\* (a slip: the namespace left out)
TypenameNoNamespace(a) == TypeNameNew(RootNs, IdentToString(a.id))

\* Api::typename
Typename(a) == TypeNameNew(a.ns, IdentToString(a.id))

\* (a slip: the alias looked at before the override)
TypenameForAllowlistAliasFirst(a) ==
    LET id_for_allowlist ==
            IF a.use_stmt.tag = "UsedWithAlias"
            THEN a.use_stmt.alias
            ELSE IF a.id_for_allowlist.some
                 THEN a.id_for_allowlist.val
                 ELSE a.id
    IN TypeNameNew(a.ns, IdentToString(id_for_allowlist))

\* Api::typename_for_allowlist
TypenameForAllowlist(a) ==
    LET id_for_allowlist ==
            IF ~a.id_for_allowlist.some
            THEN IF a.use_stmt.tag = "UsedWithAlias"
                 THEN a.use_stmt.alias
                 ELSE a.id
            ELSE a.id_for_allowlist.val
    IN TypeNameNew(a.ns, IdentToString(id_for_allowlist))

(***************************************************************************)
(* One Api and its two names.                                              *)
(***************************************************************************)
NameIds == {Ident("A"), Ident("B"), Ident("C")}
NameAliases == {Ident("A"), Ident("P")}
NameOverrides == {Ident("A"), Ident("P"), Ident("Q")}

ApiInputs ==
    {MakeApi(ns, id, u, {}, o) :
        ns \in {RootNs, InnerNs},
        id \in NameIds,
        u \in {Unused, Used} \cup {UsedWithAlias(x) : x \in NameAliases},
        o \in {None} \cup {Some(x) : x \in NameOverrides}}

NoName == TypeNameNew(RootNs, "")

InitName ==
    /\ npc = "start"
    /\ api \in ApiInputs
    /\ tn = NoName
    /\ tfa = NoName

\* api.typename() and api.typename_for_allowlist()
ResolveNames ==
    /\ npc = "start"
    /\ tn' = Typename(api)
    /\ tfa' = TypenameForAllowlist(api)
    /\ npc' = "done"
    /\ UNCHANGED api
    /\ UNCHANGED <<bvars, gvars>>

NextName == ResolveNames

\* C1: typename_for_allowlist() stays in the item's namespace and takes the
\* override if there is one, whatever use_stmt is; else the alias of
\* UsedWithAlias; else the item's own id, as typename() does.
C1_Precedence ==
    npc = "done" =>
        /\ tfa.ns = api.ns
        /\ tn = [ns |-> api.ns, name |-> api.id.sym]
        /\ api.id_for_allowlist.some =>
               tfa.name = api.id_for_allowlist.val.sym
        /\ (~api.id_for_allowlist.some /\ api.use_stmt.tag = "UsedWithAlias") =>
               tfa.name = api.use_stmt.alias.sym
        /\ (~api.id_for_allowlist.some /\ api.use_stmt.tag \in {"Unused", "Used"}) =>
               tfa = tn

C1_Witness ==
    /\ npc = "done"
    /\ api.id_for_allowlist = Some(Ident("Q"))
    /\ api.use_stmt = UsedWithAlias(Ident("P"))
    /\ api.id = Ident("A")
    /\ api.ns = InnerNs
    /\ tfa = [ns |-> <<"ns">>, name |-> "Q"]

(***************************************************************************)
(* The garbage collection over the Api graph: seed with the allow-listed   *)
(* items, follow the deps edges until a pass adds nothing, drop the rest.  *)
(***************************************************************************)

\* The candidates the header parser delivers: A and B in the root
\* namespace, C and D in an inner one; B is used under an alias, C is not
\* asked for by the user, D carries an allow-list override.
Items == {"A", "B", "C", "D"}

ItemNs(x) == IF x \in {"A", "B"} THEN RootNs ELSE InnerNs
ItemUse(x) ==
    IF x = "A" THEN Used
    ELSE IF x = "C" THEN Unused
    ELSE UsedWithAlias(Ident("P"))
ItemOverride(x) == IF x = "D" THEN Some(Ident("Q")) ELSE None

\* what a deps set may name: the four candidates, and a C of the root
\* namespace that is no candidate
DepNames ==
    {TypeNameNew(ItemNs(x), x) : x \in Items} \cup {TypeNameNew(RootNs, "C")}

\* what the allow-list may name: A, B's alias, C, D's override, and B's own
\* id, under which B is not exported
AllowNames ==
    {TypeNameNew(RootNs, "A"), TypeNameNew(RootNs, "P"), TypeNameNew(InnerNs, "C"),
     TypeNameNew(InnerNs, "Q"), TypeNameNew(RootNs, "B")}

Edges == Items \X DepNames

RECURSIVE SubsetsUpTo(_, _)
SubsetsUpTo(S, k) ==
    IF k = 0 THEN {{}}
    ELSE LET T == SubsetsUpTo(S, k - 1)
         IN T \cup {t \cup {e} : t \in T, e \in S}

Graphs == SubsetsUpTo(Edges, MaxEdges)

AllowLists == {al \in SUBSET AllowNames : Cardinality(al) <= 2}

\* the orders in which the candidates arrive
Orders == {<<"A", "B", "C", "D">>, <<"D", "C", "B", "A">>}

Candidate(x, g) ==
    MakeApi(ItemNs(x), Ident(x), ItemUse(x), {e[2] : e \in {d \in g : d[1] = x}},
            ItemOverride(x))

InitGc ==
    /\ gcpc = "seed"
    /\ \E g \in Graphs, o \in Orders :
           apis = [k \in 1..Len(o) |-> Candidate(o[k], g)]
    /\ allowlist \in AllowLists
    /\ retained = {}
    /\ added = [k \in 1..Cardinality(Items) |-> 0]
    /\ passes = 0
    /\ output = {}

\* Step 1: the items whose typename_for_allowlist() is on the allow-list.
GcSeed ==
    /\ gcpc = "seed"
    /\ LET seeds == {i \in 1..Len(apis) : TypenameForAllowlist(apis[i]) \in allowlist}
       IN /\ retained' = seeds
          /\ added' = [k \in 1..Len(apis) |-> IF k \in seeds THEN 1 ELSE 0]
    /\ gcpc' = "pass"
    /\ UNCHANGED <<apis, allowlist, passes, output>>
    /\ UNCHANGED <<bvars, nvars>>

\* (a slip: no look at what is retained already)
NewlyReachedAgain(r, i) ==
    {j \in 1..Len(apis) : Typename(apis[j]) \in apis[i].deps}

\* the items a retained item i brings in: those named by its deps and not
\* yet retained
NewlyReached(r, i) ==
    {j \in 1..Len(apis) : Typename(apis[j]) \in apis[i].deps /\ j \notin r}

\* one pass over the candidates from position i on, in their order
RECURSIVE PassFrom(_, _)
PassFrom(st, i) ==
    IF i > Len(apis) THEN st
    ELSE IF i \in st.r
    THEN LET new == NewlyReached(st.r, i)
         IN PassFrom([r |-> st.r \cup new,
                      added |-> [k \in 1..Len(apis) |->
                                    IF k \in new THEN st.added[k] + 1
                                    ELSE st.added[k]]],
                     i + 1)
    ELSE PassFrom(st, i + 1)

\* Step 2: a full pass; the loop ends when the pass added nothing.
GcPass ==
    /\ gcpc = "pass"
    /\ LET st == PassFrom([r |-> retained, added |-> added], 1)
       IN /\ retained' = st.r
          /\ added' = st.added
          /\ gcpc' = IF st.added = added THEN "sweep" ELSE "pass"
    /\ passes' = passes + 1
    /\ UNCHANGED <<apis, allowlist, output>>
    /\ UNCHANGED <<bvars, nvars>>

\* Step 3: the items not retained are dropped.
GcSweep ==
    /\ gcpc = "sweep"
    /\ output' = {apis[i] : i \in retained}
    /\ gcpc' = "done"
    /\ UNCHANGED <<apis, allowlist, retained, added, passes>>
    /\ UNCHANGED <<bvars, nvars>>

NextGc ==
    \/ GcSeed
    \/ GcPass
    \/ GcSweep

(***************************************************************************)
(* What the claims about the garbage collection speak of.                  *)
(***************************************************************************)
Candidates == {apis[i] : i \in 1..Len(apis)}

\* the name an item is known by in deps sets, and on the allow-list
OwnName(a) == [ns |-> a.ns, name |-> a.id.sym]
AllowName(a) ==
    [ns |-> a.ns,
     name |-> IF a.id_for_allowlist.some THEN a.id_for_allowlist.val.sym
              ELSE IF a.use_stmt.tag = "UsedWithAlias" THEN a.use_stmt.alias.sym
              ELSE a.id.sym]

AllowListed == {a \in Candidates : AllowName(a) \in allowlist}

ClosedUnderDeps(X) ==
    \A a \in X : \A b \in Candidates : OwnName(b) \in a.deps => b \in X

\* the least set of candidates that holds the allow-listed ones and is closed
\* under deps
LeastClosed ==
    LET closed == {X \in SUBSET Candidates : AllowListed \subseteq X /\ ClosedUnderDeps(X)}
    IN {a \in Candidates : \A X \in closed : a \in X}

ByLabel(x) == CHOOSE a \in Candidates : a.id.sym = x

DepsOn(x, targets) ==
    ByLabel(x).deps = {OwnName(ByLabel(y)) : y \in targets}

C7_AddedOnce ==
    /\ \A k \in 1..Len(apis) : added[k] <= 1
    /\ retained = {k \in 1..Len(apis) : added[k] = 1}
    /\ passes <= Cardinality(retained) + 1
    /\ passes <= Len(apis) + 1
    /\ gcpc \in {"sweep", "done"} => passes >= 1
    /\ (gcpc = "done" /\ AllowListed = {ByLabel("A")}
        /\ DepsOn("A", {"B"}) /\ DepsOn("B", {"A"})) =>
           output = {ByLabel("A"), ByLabel("B")}

C7_Witness ==
    /\ gcpc = "done"
    /\ AllowListed = {ByLabel("A")}
    /\ DepsOn("A", {"B"})
    /\ DepsOn("B", {"A"})
    /\ ByLabel("C").deps = {OwnName(ByLabel("C"))}
    /\ output = {ByLabel("A"), ByLabel("B")}
    /\ passes = 2

(***************************************************************************)
(* The variables of the parts that do not run are parked.                  *)
(***************************************************************************)
ParkedGc ==
    /\ gcpc = "off"
    /\ apis = <<>>
    /\ allowlist = {}
    /\ retained = {}
    /\ added = <<>>
    /\ passes = 0
    /\ output = {}

ParkedName ==
    /\ npc = "off"
    /\ api = MakeApi(RootNs, Ident(""), Unused, {}, None)
    /\ tn = NoName
    /\ tfa = NoName

ParkedBuild == InitBuild

\* the build driver
Init == InitBuild /\ ParkedGc /\ ParkedName
Next == NextBuild
Spec == Init /\ [][Next]_vars

\* typename() and typename_for_allowlist() of one Api
InitNames == ParkedBuild /\ ParkedGc /\ InitName
SpecName == InitNames /\ [][NextName]_vars

\* the garbage collection
InitGcOnly == ParkedBuild /\ InitGc /\ ParkedName
SpecGc == InitGcOnly /\ [][NextGc]_vars

====
